---- MODULE Spec2Model ----
(***************************************************************************)
(* A model of catalog_server/client.py: ClientCatalog, the lazy paginated  *)
(* mapping with composable query filters, against a search endpoint that   *)
(* serves a listing in pages of its own choosing; and ClientArraySource,   *)
(* whose read() builds a lazy array of blocks that are fetched one by one  *)
(* when a region of the array is forced.                                   *)
(***************************************************************************)
EXTENDS Integers, Sequences, FiniteSets, TLC

(* ------------------------------ bounds --------------------------------- *)
\* Longest server listing.
MaxItems == 3
\* Largest page the server hands out in one response.
MaxPageSize == 2
\* How many pages without progress one chain of next links may contain.
MaxEmptyPages == 1
\* Largest bound of a slice an indexer is called with.
MaxSliceBound == 2
\* How many catalog objects exist at most (the root and those search() made).
MaxCatalogs == 3
\* Longest dimension of an array, in elements.
MaxExtent == 3
\* How many lazy arrays are kept at most.
MaxArrays == 2

VARIABLES
    listing,    \* the server's entries under the catalog's path, in order
    catalogs,   \* the ClientCatalog objects constructed so far
    origin,     \* history: for each catalog, the search() call that made it
    call,       \* the frame of the operation in progress (or finished)
    requests,   \* the requests the operation in progress has issued so far
    other,      \* the frame of a second walk, of another consumer
    structure,  \* the structure the server declares for its arrays
    arrays,     \* the lazy arrays read() returned, each with its node
    job,        \* the frame of the array operation in progress (or finished)
    fetches     \* the requests that operation has issued: request -> count

vars == <<listing, catalogs, origin, call, requests,
          other, structure, arrays, job, fetches>>

(* ------------------------- values and helpers -------------------------- *)
\* Python's None where an integer may stand: <<>> is None, <<n>> is n.
None == <<>>
Some(n) == <<n>>

\* An empty dict.
EmptyDict == [k \in {} |-> ""]

\* {**a, **b}: the keys of both, b's value where both have the key.
DictMerge(a, b) == b @@ a

Min(a, b) == IF a <= b THEN a ELSE b

\* The ids of a sequence of item records.
Ids(items) == [i \in DOMAIN items |-> items[i].id]

(* ------------------------------ queries -------------------------------- *)
\* queries.py: dataclasses with one condition field each.
KeyLookup(key) == [type |-> "KeyLookup", cond |-> ("key" :> key)]
Text(text) == [type |-> "Text", cond |-> ("text" :> text)]

\* dataclasses.fields(query): the declared fields, in order.
fields(query) == IF query.type = "KeyLookup" THEN <<"key">> ELSE <<"text">>

\* query_registration.query_type_to_name
query_type_to_name(type) == IF type = "KeyLookup" THEN "lookup" ELSE "text"

\* f"filter[{name}][condition][{field.name}]"
ParamName(name, field) == "filter[" \o name \o "][condition][" \o field \o "]"

\* The inner loop of _queries_to_params: one assignment per field of a query.
RECURSIVE SetFields(_, _, _)
SetFields(params, query, fs) ==
    IF fs = <<>> THEN params
    ELSE SetFields(
            DictMerge(params,
                      ParamName(query_type_to_name(query.type), Head(fs))
                          :> query.cond[Head(fs)]),
            query, Tail(fs))

\* _queries_to_params(*queries): GET params from the queries, in order; a
\* later assignment to the same name replaces the earlier one.
RECURSIVE QueriesFold(_, _)
QueriesFold(params, queries) ==
    IF queries = <<>> THEN params
    ELSE QueriesFold(SetFields(params, Head(queries), fields(Head(queries))),
                     Tail(queries))

queries_to_params(queries) == QueriesFold(EmptyDict, queries)

(* ------------------------------ the server ----------------------------- *)
\* The entries the server may list. Item "c" declares a container that
\* DEFAULT_CONTAINER_DISPATCH does not know.
ItemA == [id |-> "a", type |-> "catalog", container |-> "", metadata |-> "m1"]
ItemB == [id |-> "b", type |-> "datasource", container |-> "array", metadata |-> "m1"]
ItemC == [id |-> "c", type |-> "datasource", container |-> "table", metadata |-> "m2"]
Items == {ItemA, ItemB, ItemC}

Listings == UNION {[1..n -> Items] : n \in 0..MaxItems}

LookupParam == ParamName("lookup", "key")
TextParam == ParamName("text", "text")

\* Whether an entry passes the filters of a request.
Matches(item, params) ==
    /\ (LookupParam \in DOMAIN params => item.id = params[LookupParam])
    /\ (TextParam \in DOMAIN params => item.metadata = params[TextParam])

\* The listing of the view the filters select, in server order.
View(params) == SelectSeq(listing, LAMBDA item : Matches(item, params))

\* A page cursor. The server's links are opaque to the client; the server
\* keeps in them the offset and how many pages without progress it served.
NullLink == [null |-> TRUE, offset |-> 0, empties |-> 0]
Link(offset, empties) == [null |-> FALSE, offset |-> offset, empties |-> empties]

\* Entries offset+1 .. offset+size of a view.
ServerPage(view, offset, size) ==
    SubSeq(view, offset + 1, Min(offset + size, Len(view)))

\* The next links a page of `size` entries at `offset` may carry.
NextLinks(view, offset, size, empties) ==
    LET end == IF offset + size < Len(view) THEN offset + size
               ELSE IF offset < Len(view) THEN Len(view) ELSE offset
    IN  IF end < Len(view)
        THEN {Link(end, IF size = 0 THEN empties + 1 ELSE empties)}
        ELSE {NullLink} \cup
             (IF empties < MaxEmptyPages THEN {Link(end, empties + 1)} ELSE {})

\* The page sizes the server may choose for a request.
PageSizes(view, req) ==
    IF req.limit # None THEN {req.limit[1]}
    ELSE {s \in 0..MaxPageSize :
            (s = 0 /\ req.url.offset < Len(view)) => req.url.empties < MaxEmptyPages}

FailedResponse ==
    [status |-> 500, data |-> <<>>, next |-> NullLink, count |-> 0]

\* What the endpoint does with a negative page[offset] is not laid down:
\* it may refuse the request, or answer with no entry or with any one
\* entry of the view.
NegativeOffsetResponses(view) ==
    {FailedResponse,
     [status |-> 200, data |-> <<>>, next |-> NullLink, count |-> Len(view)]}
    \cup {[status |-> 200, data |-> <<view[i]>>, next |-> NullLink,
           count |-> Len(view)] : i \in DOMAIN view}

\* Every response the search endpoint may give to a request.
Responses(req) ==
    LET view == View(req.params)
    IN  IF req.url.offset < 0 THEN NegativeOffsetResponses(view)
        ELSE
        {FailedResponse} \cup
        UNION {
            {[status |-> 200,
              data |-> ServerPage(view, req.url.offset, s),
              next |-> nx,
              count |-> Len(view)] :
                nx \in NextLinks(view, req.url.offset, s, req.url.empties)} :
            s \in PageSizes(view, req)}

\* Entries come and go on the server while the client is at work.
server_change ==
    /\ listing' \in Listings \ {listing}
    /\ UNCHANGED <<catalogs, origin, call, requests, other,
                   structure, arrays, job, fetches>>

(* ------------------------------ the client ----------------------------- *)
\* The httpx.Client every node shares.
Client == "client"

\* ClientCatalog.DEFAULT_CONTAINER_DISPATCH
DEFAULT_CONTAINER_DISPATCH == ("array" :> "ClientArraySource")

\* ClientArraySource.__init__: keeps client, metadata and path; the
\* container_dispatch argument is accepted and dropped.
ClientArraySource(cls, client, metadata, path) ==
    [cls |-> cls, client |-> client, metadata |-> metadata, path |-> path]

\* ClientCatalog.__init__
ClientCatalog(client, path, metadata, container_dispatch, queries) ==
    [cls |-> "ClientCatalog",
     client |-> client,
     metadata |-> metadata,
     container_dispatch |-> DictMerge(DEFAULT_CONTAINER_DISPATCH, container_dispatch),
     path |-> path,
     queries |-> queries,
     queries_as_params |-> queries_to_params(queries)]

\* A construction that leaves a child catalog with the default table.
Construct_DefaultDispatch(cls, client, path, metadata, container_dispatch) ==
    IF cls = "ClientCatalog"
    THEN ClientCatalog(client, path, metadata, EmptyDict, <<>>)
    ELSE ClientArraySource(cls, client, metadata, path)

\* cls(client, path=..., metadata=..., container_dispatch=...)
Construct(cls, client, path, metadata, container_dispatch) ==
    IF cls = "ClientCatalog"
    THEN ClientCatalog(client, path, metadata, container_dispatch, <<>>)
    ELSE ClientArraySource(cls, client, metadata, path)

\* ClientCatalog._get_class: the class, or the KeyError of the dict lookup.
get_class(self, item) ==
    IF item.type = "catalog"
    THEN [raised |-> FALSE, cls |-> self.cls]
    ELSE IF item.container \in DOMAIN self.container_dispatch
         THEN [raised |-> FALSE, cls |-> self.container_dispatch[item.container]]
         ELSE [raised |-> TRUE, cls |-> ""]

\* The queries search() is called with.
Queries == {KeyLookup("a"), Text("m1"), Text("m2")}

\* The keys catalog[key] is called with ("z" is listed nowhere).
Keys == {"a", "b", "c", "z"}

\* No object: what an operation that raised, or returned None, hands back.
NoNode == [cls |-> "None"]
NoResult == [kind |-> "none", key |-> "", node |-> NoNode]
KeyResult(key) == [kind |-> "key", key |-> key, node |-> NoNode]
NodeResult(node) == [kind |-> "node", key |-> "", node |-> node]
PairResult(key, node) == [kind |-> "pair", key |-> key, node |-> node]

\* The frame of no operation.
Idle ==
    [op |-> "none", gen |-> "", pc |-> "idle", cat |-> 0,
     key |-> "", index_kind |-> "", index |-> 0, start |-> 0, stop |-> None,
     next_page_url |-> NullLink, response_next |-> NullLink,
     page |-> <<>>, data |-> <<>>, item_counter |-> 0, length |-> None,
     out |-> <<>>, outcome |-> "", arg |-> "", result |-> NoResult]

\* A new operation may start when none is in progress.
Free == call.pc = "idle"

\* The caller is done with an operation: it has its result or its error, or
\* it stops pulling from a lazy sequence. Nothing is left to clean up.
abandon ==
    /\ call.pc # "idle"
    /\ call' = Idle
    /\ requests' = <<>>
    /\ UNCHANGED <<listing, catalogs, origin>>

\* A request to /search/{path}.
Request(self, url, limit, fields_, more) ==
    [path |-> self.path, url |-> url, limit |-> limit,
     params |-> DictMerge(DictMerge(("fields" :> fields_), more),
                          self.queries_as_params)]

\* The frame of an operation that ended by raising.
Raise(frame, exc, arg) ==
    [frame EXCEPT !.pc = "done", !.outcome = exc, !.arg = arg]

\* The frame of an operation that ended by returning.
Return(frame, result) ==
    [frame EXCEPT !.pc = "done", !.outcome = "return", !.result = result]

(* ------------------------------- search -------------------------------- *)
\* A search that extends the receiver's own query tuple before copying it.
search_InPlace(c, query) ==
    /\ Len(catalogs) < MaxCatalogs
    /\ LET extended == [catalogs EXCEPT ![c].queries = Append(@, query)]
       IN  catalogs' = Append(extended,
                ClientCatalog(extended[c].client, extended[c].path,
                              extended[c].metadata,
                              extended[c].container_dispatch,
                              extended[c].queries))
    /\ origin' = Append(origin, [receiver |-> c, query |-> query])
    /\ UNCHANGED <<listing, call, requests>>

\* ClientCatalog.search: a new catalog over the same path with one more query.
search(c, query) ==
    /\ Len(catalogs) < MaxCatalogs
    /\ catalogs' = Append(catalogs,
            ClientCatalog(catalogs[c].client, catalogs[c].path,
                          catalogs[c].metadata, catalogs[c].container_dispatch,
                          Append(catalogs[c].queries, query)))
    /\ origin' = Append(origin, [receiver |-> c, query |-> query])
    /\ UNCHANGED <<listing, call, requests>>

(* ----------------------------- __getitem__ ----------------------------- *)
\* A lookup that takes the first of several matches.
getitem_result_FirstMatch(self, frame, data, asserts) ==
    IF data = <<>> THEN Raise(frame, "KeyError", frame.key)
    ELSE LET item == data[1]
             got == get_class(self, item)
         IN  IF got.raised THEN Raise(frame, "KeyError", item.container)
             ELSE Return(frame,
                    NodeResult(Construct(got.cls, self.client,
                                         Append(self.path, item.id),
                                         item.metadata, self.container_dispatch)))

\* What __getitem__ does with the data of a successful response. `asserts`
\* is whether the interpreter runs assert statements (python -O drops them,
\* and the unpacking of the next line raises instead).
getitem_result(self, frame, data, asserts) ==
    IF data = <<>> THEN Raise(frame, "KeyError", frame.key)
    ELSE IF Len(data) # 1
    THEN Raise(frame, IF asserts THEN "AssertionError" ELSE "ValueError", "")
    ELSE LET item == data[1]
             got == get_class(self, item)
         IN  IF got.raised THEN Raise(frame, "KeyError", item.container)
             ELSE Return(frame,
                    NodeResult(Construct(got.cls, self.client,
                                         Append(self.path, item.id),
                                         item.metadata, self.container_dispatch)))

\* ClientCatalog.__getitem__: one request, then the result.
getitem(c, key) ==
    /\ Free
    /\ LET self == catalogs[c]
           frame == [Idle EXCEPT !.op = "getitem", !.cat = c, !.key = key]
           req == Request(self, Link(0, 0), None, "metadata,container",
                          queries_to_params(<<KeyLookup(key)>>))
       IN  /\ requests' = <<req>>
           /\ \E resp \in Responses(req) :
              \E asserts \in IF Len(resp.data) > 1 THEN BOOLEAN ELSE {TRUE} :
                call' = IF resp.status # 200
                        THEN Raise(frame, "HTTPStatusError", "")
                        ELSE getitem_result(self, [frame EXCEPT !.data = resp.data],
                                            resp.data, asserts)
    /\ UNCHANGED <<listing, catalogs, origin>>

(* ------------------------------- __len__ ------------------------------- *)
\* The request of ClientCatalog.__len__.
len_request(self) == Request(self, Link(0, 0), None, "", EmptyDict)

\* ClientCatalog.__len__ called on its own.
len(c) ==
    /\ Free
    /\ LET self == catalogs[c]
           frame == [Idle EXCEPT !.op = "len", !.cat = c]
       IN  /\ requests' = <<len_request(self)>>
           /\ \E resp \in Responses(len_request(self)) :
                call' = IF resp.status # 200
                        THEN Raise(frame, "HTTPStatusError", "")
                        ELSE Return([frame EXCEPT !.length = Some(resp.count)],
                                    NoResult)
    /\ UNCHANGED <<listing, catalogs, origin>>

(* --------------------------- walking the pages ------------------------- *)
\* The head of every page loop: `while next_page_url is not None`, the GET
\* of that page with the catalog's params, raise_for_status(), and the
\* start of the loop over the page's data.
PageRequest(gen, fields_) ==
    /\ call.pc = "fetch" /\ call.gen = gen
    /\ ~call.next_page_url.null
    /\ LET req == Request(catalogs[call.cat], call.next_page_url, None,
                          fields_, EmptyDict)
       IN  /\ requests' = Append(requests, req)
           /\ \E resp \in Responses(req) :
                call' = IF resp.status # 200
                        THEN Raise(call, "HTTPStatusError", "")
                        ELSE [call EXCEPT !.pc = "loop",
                                          !.page = resp.data,
                                          !.data = resp.data,
                                          !.response_next = resp.next]
    /\ UNCHANGED <<listing, catalogs, origin>>

\* A variant that ends the walk at the first page without data.
AfterPage_StopOnEmptyPage(frame) ==
    IF frame.response_next.null \/ frame.data = <<>>
    THEN Return([frame EXCEPT !.next_page_url = NullLink, !.page = <<>>],
                frame.result)
    ELSE [frame EXCEPT !.next_page_url = frame.response_next,
                       !.page = <<>>, !.pc = "fetch"]

\* The frame after the loop over a page ended: next_page_url is assigned the
\* response's next link and the while test runs; on None the generator
\* returns (and a caller that collects it into a list has its list).
AfterPage(frame) ==
    IF frame.response_next.null
    THEN Return([frame EXCEPT !.next_page_url = NullLink, !.page = <<>>],
                frame.result)
    ELSE [frame EXCEPT !.next_page_url = frame.response_next,
                       !.page = <<>>, !.pc = "fetch"]

\* The loop over a page has no item left.
PageDone(gen) ==
    /\ call.pc = "loop" /\ call.gen = gen
    /\ call.page = <<>>
    /\ call' = AfterPage(call)
    /\ UNCHANGED <<listing, catalogs, origin, requests>>

\* The frame after `yield value` and the consumer's next pull.
Yield(frame, value) ==
    [frame EXCEPT !.page = Tail(frame.page), !.out = Append(frame.out, value)]

\* A generator object is made; none of its code has run.
Generator(op, gen, c, start, stop) ==
    [Idle EXCEPT !.op = op, !.gen = gen, !.cat = c, !.pc = "fetch",
                 !.start = start, !.stop = stop,
                 !.next_page_url = Link(start, 0), !.item_counter = start]

(* ------------------------------ __iter__ ------------------------------- *)
\* keys(): iter(catalog)
iter_call(c) ==
    /\ Free
    /\ call' = Generator("keys", "iter", c, 0, None)
    /\ requests' = <<>>
    /\ UNCHANGED <<listing, catalogs, origin>>

\* for item in response.json()["data"]: yield item["id"]
iter_yield ==
    /\ call.pc = "loop" /\ call.gen = "iter"
    /\ call.page # <<>>
    /\ call' = Yield(call, KeyResult(Head(call.page).id))
    /\ UNCHANGED <<listing, catalogs, origin, requests>>

iter ==
    \/ PageRequest("iter", "")
    \/ iter_yield
    \/ PageDone("iter")

(* ------------------------- a second iteration ------------------------- *)
\* One step of the generator of __iter__ run in a frame of its own: the
\* frames it may lead to. At the head of the while loop the GET of the
\* page and raise_for_status(); in the for loop the yield of the next id;
\* after it the next link and the while test.
iter_steps(self, frame) ==
    IF frame.pc = "fetch"
    THEN {IF resp.status # 200
          THEN Raise(frame, "HTTPStatusError", "")
          ELSE [frame EXCEPT !.pc = "loop", !.page = resp.data,
                             !.data = resp.data, !.response_next = resp.next] :
            resp \in Responses(Request(self, frame.next_page_url, None, "",
                                       EmptyDict))}
    ELSE IF frame.pc = "loop"
    THEN IF frame.page # <<>>
         THEN {Yield(frame, KeyResult(Head(frame.page).id))}
         ELSE {AfterPage(frame)}
    ELSE {}

\* keys() called by a second consumer.
other_iter_call(c) ==
    /\ other.pc = "idle"
    /\ other' = Generator("keys", "iter", c, 0, None)
    /\ UNCHANGED <<listing, catalogs, origin, call, requests,
                   structure, arrays, job, fetches>>

\* A generator whose cursor is kept on the catalog: a step of the second
\* walk moves the first one's as well.
other_iter_SharedCursor ==
    /\ other.gen = "iter"
    /\ other' \in iter_steps(catalogs[other.cat], other)
    /\ call' = IF call.gen = "iter" /\ call.pc = "fetch"
               THEN [call EXCEPT !.next_page_url = other'.next_page_url]
               ELSE call
    /\ UNCHANGED <<listing, catalogs, origin, requests,
                   structure, arrays, job, fetches>>

\* A step of the second consumer's generator: its locals are its own.
other_iter ==
    /\ other.gen = "iter"
    /\ other' \in iter_steps(catalogs[other.cat], other)
    /\ UNCHANGED <<listing, catalogs, origin, call, requests,
                   structure, arrays, job, fetches>>

\* The second consumer stops pulling, or is done.
other_abandon ==
    /\ other.pc # "idle"
    /\ other' = Idle
    /\ UNCHANGED <<listing, catalogs, origin, call, requests,
                   structure, arrays, job, fetches>>

(* ------------------------- items() and values() ------------------------ *)
\* The attributes a ClientCatalog has: those __init__ assigns and those the
\* class defines.
CatalogAttributes ==
    {"_client", "_metadata", "container_dispatch", "_path", "_queries",
     "_queries_as_params", "keys_indexer", "items_indexer", "values_indexer",
     "DEFAULT_CONTAINER_DISPATCH", "from_uri", "metadata", "search",
     "items", "values", "keys", "get"}

items_call(c) ==
    /\ Free
    /\ call' = Generator("items", "items", c, 0, None)
    /\ requests' = <<>>
    /\ UNCHANGED <<listing, catalogs, origin>>

\* values(): `for _, value in self.items(): yield value`
values_call(c) ==
    /\ Free
    /\ call' = Generator("values", "items", c, 0, None)
    /\ requests' = <<>>
    /\ UNCHANGED <<listing, catalogs, origin>>

\* What values() does with what items() yields: it unpacks a pair.
values_unpack(frame, yielded) ==
    IF yielded.kind = "pair" THEN Yield(frame, NodeResult(yielded.node))
    ELSE Raise(frame, "TypeError", "")

\* The body of the loop of items(): the class, then the constructor call,
\* whose path argument reads self.path; the node alone is yielded.
items_body(self, frame, item) ==
    LET got == get_class(self, item)
    IN  IF got.raised THEN Raise(frame, "KeyError", item.container)
        ELSE IF "path" \notin CatalogAttributes
        THEN Raise(frame, "AttributeError", "path")
        ELSE LET node == NodeResult(Construct(got.cls, self.client,
                                        Append(self.path, item.id),
                                        item.metadata, self.container_dispatch))
             IN  IF frame.op = "values" THEN values_unpack(frame, node)
                 ELSE Yield(frame, node)

items_item ==
    /\ call.pc = "loop" /\ call.gen = "items"
    /\ call.page # <<>>
    /\ call' = items_body(catalogs[call.cat], call, Head(call.page))
    /\ UNCHANGED <<listing, catalogs, origin, requests>>

items ==
    \/ PageRequest("items", "metadata,container")
    \/ items_item
    \/ PageDone("items")

(* ------------------------------- slices -------------------------------- *)
\* `if stop is not None and next(item_counter) == stop: break`, else the
\* yield. next() runs only when stop is not None, and returns the counter's
\* value before the increment.
SliceStep(frame, value) ==
    IF frame.stop = None THEN Yield(frame, value)
    ELSE IF frame.item_counter = frame.stop[1]
    THEN [frame EXCEPT !.page = <<>>, !.item_counter = @ + 1]
    ELSE [Yield(frame, value) EXCEPT !.item_counter = @ + 1]

\* _keys_slice: the loop over a page.
keys_slice_item ==
    /\ call.pc = "loop" /\ call.gen = "keys_slice"
    /\ call.page # <<>>
    /\ call' = SliceStep(call, KeyResult(Head(call.page).id))
    /\ UNCHANGED <<listing, catalogs, origin, requests>>

keys_slice ==
    \/ PageRequest("keys_slice", "")
    \/ keys_slice_item
    \/ PageDone("keys_slice")

\* The body of the loop of _items_slice after the stop test: `yield key,
\* cls(...)`; _values_indexer keeps the value of each pair.
items_slice_body(self, frame, item) ==
    LET got == get_class(self, item)
        node == Construct(got.cls, self.client, Append(self.path, item.id),
                          item.metadata, self.container_dispatch)
    IN  IF got.raised THEN Raise(frame, "KeyError", item.container)
        ELSE [Yield(frame, IF frame.op = "values_indexer"
                           THEN NodeResult(node)
                           ELSE PairResult(item.id, node))
                 EXCEPT !.item_counter = IF frame.stop = None THEN @ ELSE @ + 1]

items_slice_item ==
    /\ call.pc = "loop" /\ call.gen = "items_slice"
    /\ call.page # <<>>
    /\ call' = IF call.stop # None /\ call.item_counter = call.stop[1]
               THEN [call EXCEPT !.page = <<>>, !.item_counter = @ + 1]
               ELSE items_slice_body(catalogs[call.cat], call, Head(call.page))
    /\ UNCHANGED <<listing, catalogs, origin, requests>>

items_slice ==
    \/ PageRequest("items_slice", "metadata,container")
    \/ items_slice_item
    \/ PageDone("items_slice")

(* ------------------------------ indexers ------------------------------- *)
\* The arguments the indexers are called with: an int, a slice of bounds
\* that are None or not negative, or something else (a str).
IntArgs == {[kind |-> "int", n |-> n, start |-> None, stop |-> None] :
                n \in 0..(MaxItems + 1)}
SliceBounds == {None} \cup {Some(n) : n \in 0..MaxSliceBound}
SliceArgs == {[kind |-> "slice", n |-> 0, start |-> a, stop |-> b] :
                a \in SliceBounds, b \in SliceBounds}
StrArg == [kind |-> "str", n |-> 0, start |-> None, stop |-> None]
IndexArgs == IntArgs \cup SliceArgs \cup {StrArg}

Indexers == {"keys_indexer", "items_indexer", "values_indexer"}

\* in_memory_catalog.slice_to_interval: a missing start is 0.
slice_to_interval(index) ==
    [start |-> IF index.start = None THEN 0 ELSE index.start[1],
     stop |-> index.stop]

\* _keys_indexer, _items_indexer, _values_indexer up to their first request:
\* the isinstance dispatch on the index.
indexer_call(indexer, c, index) ==
    /\ Free
    /\ requests' = <<>>
    /\ call' =
        IF index.kind = "int"
        THEN [Idle EXCEPT !.op = indexer, !.cat = c, !.index_kind = "int",
                          !.index = index.n, !.pc = "len"]
        ELSE IF index.kind = "slice"
        THEN LET interval == slice_to_interval(index)
             IN  [Generator(indexer,
                            IF indexer = "keys_indexer" THEN "keys_slice"
                            ELSE "items_slice",
                            c, interval.start, interval.stop)
                    EXCEPT !.index_kind = "slice",
                           !.result = [NoResult EXCEPT !.kind = "list"]]
        ELSE Raise([Idle EXCEPT !.op = indexer, !.cat = c,
                                !.index_kind = index.kind], "TypeError", "")
    /\ UNCHANGED <<listing, catalogs, origin>>

\* A range check that lets index = length through.
OutOfRange_OffByOne(index, length) == index > length

\* `index >= len(self)`: the comparison that sends _item_by_index to its
\* IndexError.
OutOfRange(index, length) == index >= length

\* _item_by_index: the len(self) of the range check.
item_by_index_len ==
    /\ call.pc = "len"
    /\ LET req == len_request(catalogs[call.cat])
       IN  /\ requests' = Append(requests, req)
           /\ \E resp \in Responses(req) :
                call' = IF resp.status # 200
                        THEN Raise(call, "HTTPStatusError", "")
                        ELSE [call EXCEPT
                                !.length = Some(resp.count),
                                !.pc = IF OutOfRange(call.index, resp.count)
                                       THEN "raise" ELSE "item"]
    /\ UNCHANGED <<listing, catalogs, origin>>

\* _item_by_index: the IndexError, whose message calls len(self) again.
item_by_index_raise ==
    /\ call.pc = "raise"
    /\ LET req == len_request(catalogs[call.cat])
       IN  /\ requests' = Append(requests, req)
           /\ \E resp \in Responses(req) :
                call' = IF resp.status # 200
                        THEN Raise(call, "HTTPStatusError", "")
                        ELSE Raise(call, "IndexError", "")
    /\ UNCHANGED <<listing, catalogs, origin>>

\* What each indexer returns from the (key, value) of _item_by_index:
\* _values_indexer binds the pair and falls off its end.
indexer_return(indexer, key, value) ==
    IF indexer = "keys_indexer" THEN KeyResult(key)
    ELSE IF indexer = "items_indexer" THEN PairResult(key, value)
    ELSE NoResult

\* _item_by_index after a successful item response.
item_by_index_result(self, frame, data) ==
    IF Len(data) # 1 THEN Raise(frame, "ValueError", "")
    ELSE LET item == data[1]
             got == get_class(self, item)
         IN  IF got.raised THEN Raise(frame, "KeyError", item.container)
             ELSE Return(frame,
                    indexer_return(frame.op, item.id,
                        Construct(got.cls, self.client,
                                  Append(self.path, item.id),
                                  item.metadata, self.container_dispatch)))

\* _item_by_index: the request for page[offset]=index, page[limit]=1.
item_by_index_get ==
    /\ call.pc = "item"
    /\ LET self == catalogs[call.cat]
           req == Request(self, Link(call.index, 0), Some(1),
                          "metadata,container", EmptyDict)
       IN  /\ requests' = Append(requests, req)
           /\ \E resp \in Responses(req) :
                call' = IF resp.status # 200
                        THEN Raise(call, "HTTPStatusError", "")
                        ELSE item_by_index_result(self,
                                [call EXCEPT !.data = resp.data], resp.data)
    /\ UNCHANGED <<listing, catalogs, origin>>

item_by_index ==
    \/ item_by_index_len
    \/ item_by_index_raise
    \/ item_by_index_get

(* ------------------------- the array endpoints ------------------------- *)
RECURSIVE Sum(_)
Sum(s) == IF s = <<>> THEN 0 ELSE Head(s) + Sum(Tail(s))

RECURSIVE Product(_)
Product(s) == IF s = <<>> THEN 1 ELSE Head(s) * Product(Tail(s))

\* An array has one chunk or two along a dimension.
BlockCounts == {1, 2}

\* The chunk extents along one dimension: chunks of at least one element,
\* MaxExtent elements at most together.
ChunkTuples ==
    {t \in UNION {[1..n -> 1..MaxExtent] : n \in BlockCounts} :
        Sum(t) <= MaxExtent}

\* Arrays of one and of two dimensions.
Ranks == {1, 2}

Dtypes == {"float64"}

\* numpy.dtype(...).itemsize
itemsize(dtype) == IF dtype = "float64" THEN 8 ELSE 1

\* The structures the server may declare: any chunk grid, regular or not,
\* the shape that grid adds up to, and a dtype.
Structures ==
    {[chunks |-> ch, shape |-> [d \in DOMAIN ch |-> Sum(ch[d])], dtype |-> dt] :
        ch \in UNION {[1..n -> ChunkTuples] : n \in Ranks}, dt \in Dtypes}

\* The paths of the array nodes.
ArrayPaths == {<<"b">>, <<"a", "b">>}

\* The block coordinates of a chunk grid (0-based, as in the requests).
BlockCoords(chunks) ==
    {c \in [DOMAIN chunks -> 0..(MaxExtent - 1)] :
        \A d \in DOMAIN chunks : c[d] < Len(chunks[d])}

\* No requests.
EmptyLog == [r \in {} |-> 0]

\* How often a request was issued.
Count(log, r) == IF r \in DOMAIN log THEN log[r] ELSE 0

\* The log after one more request.
Logged(log, r) == (r :> (Count(log, r) + 1)) @@ log

FailedArrayResponse == [status |-> 500, structure |-> <<>>, length |-> 0]

\* GET /metadata/{path}?fields=structure
MetadataResponses(req) ==
    {FailedArrayResponse,
     [status |-> 200, structure |-> structure, length |-> 0]}

\* The byte counts a block response may have: the block's own, one byte
\* less (not a whole number of elements), or one element more.
ContentLengths(expected, size) ==
    {expected - 1, expected, expected + size}

(* --------------------------- ClientArraySource ------------------------- *)
\* The array nodes the client holds.
Sources == {ClientArraySource("ClientArraySource", Client, "m1", p) : p \in ArrayPaths}

\* str(i) of a block index.
Digits == <<"0", "1", "2", "3", "4", "5", "6", "7", "8", "9">>
str(n) == Digits[n + 1]

\* sep.join(strs)
RECURSIVE join(_, _)
join(sep, strs) ==
    IF strs = <<>> THEN ""
    ELSE IF Len(strs) = 1 THEN strs[1]
    ELSE strs[1] \o sep \o join(sep, Tail(strs))

\* The request of describe().
describe_request(self) ==
    [endpoint |-> "metadata", path |-> self.path,
     params |-> ("fields" :> "structure"), accept |-> ""]

\* The request of _get_block(block, ...).
get_block_request(self, block) ==
    [endpoint |-> "blob/array", path |-> self.path,
     params |-> ("block" :> join(",", [i \in DOMAIN block |-> str(block[i])])),
     accept |-> "application/octet-stream"]

\* GET /blob/array/{path}?block=i,j: the server finds the block the
\* parameter names in its grid and answers with some number of bytes.
BlobResponses(req) ==
    LET named == {c \in BlockCoords(structure.chunks) :
                    join(",", [i \in DOMAIN c |-> str(c[i])]) = req.params["block"]}
    IN  {FailedArrayResponse} \cup
        UNION {
            {[status |-> 200, structure |-> <<>>, length |-> n] :
                n \in ContentLengths(
                        Product([d \in DOMAIN c |-> structure.chunks[d][c[d] + 1]])
                            * itemsize(structure.dtype),
                        itemsize(structure.dtype))} :
            c \in named}

\* numpy.frombuffer(content, dtype=dtype): a flat array of len(content) /
\* itemsize elements; a ValueError when that is not a whole number.
frombuffer(length, dtype) ==
    IF length % itemsize(dtype) # 0
    THEN [raised |-> TRUE, size |-> 0]
    ELSE [raised |-> FALSE, size |-> length \div itemsize(dtype)]

\* ndarray.reshape(shape): a ValueError unless the element counts agree.
reshape(array, shape) ==
    IF array.size # Product(shape)
    THEN [raised |-> TRUE, shape |-> <<>>]
    ELSE [raised |-> FALSE, shape |-> shape]

\* No block.
NoBlock == [shape |-> <<>>, path |-> <<>>, block |-> <<>>]

\* A _get_block that hands back the flat buffer whenever it has whole
\* elements.
get_block_NoReshape(self, block, dtype, shape, response) ==
    IF response.status # 200
    THEN [raised |-> "HTTPStatusError", value |-> NoBlock]
    ELSE IF frombuffer(response.length, dtype).raised
    THEN [raised |-> "ValueError", value |-> NoBlock]
    ELSE [raised |-> "",
          value |-> [shape |-> shape, path |-> self.path, block |-> block]]

\* ClientArraySource._get_block after its request: raise_for_status(), then
\* numpy.frombuffer(response.content, dtype=dtype).reshape(shape). The
\* value names the bytes it holds by the path and block they were served for.
get_block(self, block, dtype, shape, response) ==
    IF response.status # 200
    THEN [raised |-> "HTTPStatusError", value |-> NoBlock]
    ELSE LET flat == frombuffer(response.length, dtype)
         IN  IF flat.raised \/ reshape(flat, shape).raised
             THEN [raised |-> "ValueError", value |-> NoBlock]
             ELSE [raised |-> "",
                   value |-> [shape |-> reshape(flat, shape).shape,
                              path |-> self.path, block |-> block]]

\* The name read() gives its array: the string of line 55 as written, a
\* plain literal whose braces nothing fills in.
array_name(self) ==
    "remote-dask-array-{self._client.base_url!s}{'/'.join(self._path)}"

\* itertools.product(*ranges)
RECURSIVE product(_)
product(ranges) ==
    IF ranges = <<>> THEN {<<>>}
    ELSE {<<i>> \o rest : i \in Head(ranges), rest \in product(Tail(ranges))}

\* num_blocks: range(len(n)) for n in chunks
num_blocks(chunks) == [d \in DOMAIN chunks |-> 0..(Len(chunks[d]) - 1)]

\* A task graph whose every block has the shape of the first chunks.
dask_tasks_FirstChunkShape(self, name_, chunks, dtype) ==
    [key \in {<<name_>> \o block : block \in product(num_blocks(chunks))} |->
        [func |-> "_get_block", self |-> self, block |-> Tail(key),
         dtype |-> dtype,
         shape |-> [dim \in DOMAIN Tail(key) |-> chunks[dim][1]]]]

\* A task graph whose tasks fetch the block of the transposed coordinate.
dask_tasks_Transposed(self, name_, chunks, dtype) ==
    [key \in {<<name_>> \o block : block \in product(num_blocks(chunks))} |->
        [func |-> "_get_block", self |-> self,
         block |-> [dim \in DOMAIN Tail(key) |->
                        Tail(key)[Len(Tail(key)) + 1 - dim]],
         dtype |-> dtype,
         shape |-> [dim \in DOMAIN Tail(key) |-> chunks[dim][Tail(key)[dim] + 1]]]]

\* dask_tasks of read(): for every block of the product, the key
\* (name,) + block and the task (self._get_block, block, dtype, shape of
\* the block).
dask_tasks(self, name_, chunks, dtype) ==
    [key \in {<<name_>> \o block : block \in product(num_blocks(chunks))} |->
        [func |-> "_get_block", self |-> self, block |-> Tail(key),
         dtype |-> dtype,
         shape |-> [dim \in DOMAIN Tail(key) |-> chunks[dim][Tail(key)[dim] + 1]]]]

\* dask.array.Array(dask=..., name=..., chunks=..., dtype=..., shape=...)
Array(dask, name_, chunks, dtype, shape) ==
    [dask |-> dask, name |-> name_, chunks |-> chunks, dtype |-> dtype,
     shape |-> shape]

\* The frame of no array operation.
IdleJob ==
    [op |-> "none", pc |-> "idle", source |-> <<>>, sel |-> <<>>,
     region |-> <<>>, pending |-> {}, blocks |-> EmptyLog,
     key |-> <<>>, content_length |-> None, outcome |-> ""]

\* The caller is done with an array operation.
discard ==
    /\ job.pc # "idle"
    /\ job' = IdleJob
    /\ fetches' = EmptyLog
    /\ UNCHANGED <<listing, catalogs, origin, call, requests, other,
                   structure, arrays>>

\* A read() that fetches every block before it returns.
read_Eager(self) ==
    /\ job.pc = "idle"
    /\ Len(arrays) < MaxArrays
    /\ \E resp \in MetadataResponses(describe_request(self)) :
         IF resp.status # 200
         THEN /\ job' = [IdleJob EXCEPT !.op = "read", !.source = self.path,
                                        !.pc = "done", !.outcome = "HTTPStatusError"]
              /\ fetches' = Logged(EmptyLog, describe_request(self))
              /\ arrays' = arrays
         ELSE LET st == resp.structure
                  dask == dask_tasks(self, array_name(self), st.chunks, st.dtype)
              IN  /\ job' = [IdleJob EXCEPT !.op = "read", !.source = self.path,
                                            !.pc = "done", !.outcome = "return"]
                  /\ \E key \in DOMAIN dask :
                        fetches' = Logged(Logged(EmptyLog, describe_request(self)),
                                          get_block_request(self, dask[key].block))
                  /\ arrays' = Append(arrays,
                        [node |-> self,
                         array |-> Array(dask, array_name(self), st.chunks,
                                         st.dtype, st.shape)])
    /\ UNCHANGED <<listing, catalogs, origin, call, requests, other, structure>>

\* ClientArraySource.read: describe() (its request, raise_for_status(), the
\* structure), then the lazy array over the task graph.
read(self) ==
    /\ job.pc = "idle"
    /\ Len(arrays) < MaxArrays
    /\ fetches' = Logged(EmptyLog, describe_request(self))
    /\ \E resp \in MetadataResponses(describe_request(self)) :
         IF resp.status # 200
         THEN /\ job' = [IdleJob EXCEPT !.op = "read", !.source = self.path,
                                        !.pc = "done", !.outcome = "HTTPStatusError"]
              /\ arrays' = arrays
         ELSE LET st == resp.structure
              IN  /\ job' = [IdleJob EXCEPT !.op = "read", !.source = self.path,
                                            !.pc = "done", !.outcome = "return"]
                  /\ arrays' = Append(arrays,
                        [node |-> self,
                         array |-> Array(dask_tasks(self, array_name(self),
                                                    st.chunks, st.dtype),
                                         array_name(self), st.chunks, st.dtype,
                                         st.shape)])
    /\ UNCHANGED <<listing, catalogs, origin, call, requests, other, structure>>

(* --------------------------- the lazy arrays --------------------------- *)
\* A region of an array: along every dimension the elements lo .. hi-1.
Regions(shape) ==
    {r \in [DOMAIN shape -> [lo : 0..(MaxExtent - 1), hi : 1..MaxExtent]] :
        \A d \in DOMAIN shape : r[d].lo < r[d].hi /\ r[d].hi <= shape[d]}

\* The arrays a computation takes: the one array in hand, or the first two
\* combined element by element.
Selections ==
    IF Len(arrays) = 0 THEN {}
    ELSE IF Len(arrays) = 1 THEN {<<1>>}
    ELSE {<<1, 2>>}

\* Where block i (0-based) of a dimension starts.
BlockStart(extents, i) == Sum(SubSeq(extents, 1, i))

\* The keys of the blocks of an array that a region touches: those whose
\* span meets the region's along every dimension.
KeysOf(array, region) ==
    {<<array.name>> \o c : c \in
        {c \in BlockCoords(array.chunks) :
            \A d \in DOMAIN region :
                /\ BlockStart(array.chunks[d], c[d]) < region[d].hi
                /\ region[d].lo < BlockStart(array.chunks[d], c[d] + 1)}}

\* The graphs of several arrays merged into one, a later array's task
\* replacing an earlier one's under the same key.
RECURSIVE MergedGraph(_)
MergedGraph(sel) ==
    IF sel = <<>> THEN EmptyLog
    ELSE DictMerge(arrays[Head(sel)].array.dask, MergedGraph(Tail(sel)))

\* A region of one array, or of a combination of arrays, is forced: the
\* graphs are merged and the blocks the region touches are to be computed.
force(sel, region) ==
    /\ job.pc = "idle"
    /\ job' = [IdleJob EXCEPT
                !.op = "compute", !.pc = "running", !.sel = sel,
                !.region = region,
                !.pending = UNION {KeysOf(arrays[sel[i]].array, region) :
                                        i \in DOMAIN sel}]
    /\ fetches' = EmptyLog
    /\ UNCHANGED <<listing, catalogs, origin, call, requests, other,
                   structure, arrays>>

\* The engine runs the task of one pending key, in any order, each once:
\* the task's _get_block with the task's arguments. An error ends the
\* computation; with the last block it returns.
compute_block ==
    /\ job.pc = "running"
    /\ \E key \in job.pending :
         IF key \notin DOMAIN MergedGraph(job.sel)
         THEN /\ job' = [job EXCEPT !.pc = "done", !.key = key,
                                    !.outcome = "KeyError"]
              /\ fetches' = fetches
         ELSE LET task == MergedGraph(job.sel)[key]
                  req == get_block_request(task.self, task.block)
              IN  /\ fetches' = Logged(fetches, req)
                  /\ \E resp \in BlobResponses(req) :
                       LET got == get_block(task.self, task.block, task.dtype,
                                            task.shape, resp)
                       IN  job' =
                            IF got.raised # ""
                            THEN [job EXCEPT
                                    !.pc = "done", !.key = key,
                                    !.content_length =
                                        IF resp.status = 200 THEN Some(resp.length)
                                        ELSE None,
                                    !.outcome = got.raised]
                            ELSE [job EXCEPT
                                    !.pc = IF job.pending = {key} THEN "done"
                                           ELSE "running",
                                    !.outcome = IF job.pending = {key} THEN "return"
                                                ELSE "",
                                    !.key = key,
                                    !.content_length = Some(resp.length),
                                    !.pending = @ \ {key},
                                    !.blocks = (key :> got.value) @@ @]
    /\ UNCHANGED <<listing, catalogs, origin, call, requests, other,
                   structure, arrays>>

(* --------------------------- the specifications ------------------------ *)
\* No array is declared, read or computed, and no frame is kept for one.
NoArrays ==
    /\ structure = <<>>
    /\ arrays = <<>>
    /\ job = <<>>
    /\ fetches = EmptyLog

\* There is no second consumer, and no frame for one.
NoOther == other = <<>>

\* A step of the one catalog operation: a second walk and the arrays stay
\* as they are.
Alone == UNCHANGED <<other, structure, arrays, job, fetches>>

\* from_uri(uri): the root catalog, no queries and no container_dispatch
\* of the caller's, against any listing.
Init ==
    /\ listing \in Listings
    /\ catalogs = <<ClientCatalog(Client, <<>>, "m0", EmptyDict, <<>>)>>
    /\ origin = <<[receiver |-> 0, query |-> KeyLookup("")]>>
    /\ call = Idle
    /\ requests = <<>>
    /\ NoOther
    /\ NoArrays

\* Searching, keyed lookup and length on the root and the catalogs derived
\* from it.
Next ==
    \/ \E c \in DOMAIN catalogs, q \in Queries : search(c, q) /\ Alone
    \/ \E c \in DOMAIN catalogs, key \in Keys : getitem(c, key) /\ Alone
    \/ \E c \in DOMAIN catalogs : len(c) /\ Alone
    \/ abandon /\ Alone

Spec == Init /\ [][Next]_vars

\* The query tuples of the catalog whose pages are walked.
QueryTuples == {<<>>, <<KeyLookup("a")>>, <<Text("m1")>>}

\* One catalog, constructed with any of these query tuples, against any
\* listing.
InitWalk ==
    /\ listing \in Listings
    /\ \E qs \in QueryTuples :
         catalogs = <<ClientCatalog(Client, <<>>, "m0", EmptyDict, qs)>>
    /\ origin = <<[receiver |-> 0, query |-> KeyLookup("")]>>
    /\ call = Idle
    /\ requests = <<>>
    /\ NoOther
    /\ NoArrays

\* Iteration and indexed or sliced access, page by page.
NextWalk ==
    \/ \E c \in DOMAIN catalogs : iter_call(c) /\ Alone
    \/ iter /\ Alone
    \/ \E c \in DOMAIN catalogs : items_call(c) /\ Alone
    \/ \E c \in DOMAIN catalogs : values_call(c) /\ Alone
    \/ items /\ Alone
    \/ \E c \in DOMAIN catalogs, i \in Indexers, index \in IndexArgs :
            indexer_call(i, c, index) /\ Alone
    \/ keys_slice /\ Alone
    \/ items_slice /\ Alone
    \/ item_by_index /\ Alone
    \/ abandon /\ Alone

SpecWalk == InitWalk /\ [][NextWalk]_vars

\* The catalogs whose children are built: the root or a nested catalog,
\* with the default container dispatch or one more constructor registered,
\* with or without a query.
ParentPaths == {<<>>, <<"x">>}
UserDispatches == {EmptyDict, ("table" :> "ClientTableSource")}
ParentQueryTuples == {<<>>, <<Text("m1")>>}

\* The indexer arguments that hand out children: an int, or a slice to the
\* end of the listing.
ChildIndexArgs == IntArgs \cup {index \in SliceArgs : index.stop = None}

InitChildren ==
    /\ listing \in Listings
    /\ \E path \in ParentPaths, cd \in UserDispatches, qs \in ParentQueryTuples :
         catalogs = <<ClientCatalog(Client, path, "m0", cd, qs)>>
    /\ origin = <<[receiver |-> 0, query |-> KeyLookup("")]>>
    /\ call = Idle
    /\ requests = <<>>
    /\ NoOther
    /\ NoArrays

\* The operations that hand out nodes: keyed lookup, items() and values(),
\* and the items and values indexers.
NextChildren ==
    \/ \E c \in DOMAIN catalogs, key \in Keys : getitem(c, key) /\ Alone
    \/ \E c \in DOMAIN catalogs : items_call(c) /\ Alone
    \/ \E c \in DOMAIN catalogs : values_call(c) /\ Alone
    \/ items /\ Alone
    \/ \E c \in DOMAIN catalogs, i \in {"items_indexer", "values_indexer"},
          index \in ChildIndexArgs : indexer_call(i, c, index) /\ Alone
    \/ items_slice /\ Alone
    \/ item_by_index /\ Alone
    \/ abandon /\ Alone

SpecChildren == InitChildren /\ [][NextChildren]_vars

\* The listings of a server that keeps its ids unique.
DistinctListings ==
    {l \in Listings : \A i, j \in DOMAIN l : l[i].id = l[j].id => i = j}

\* The ints an indexer may be called with, negative ones included.
SignedIntArgs ==
    {[kind |-> "int", n |-> n, start |-> None, stop |-> None] :
        n \in (0 - MaxItems)..(MaxItems + 1)}

\* Integer-indexed access while the server's listing changes.
NextIndex ==
    \/ \E c \in DOMAIN catalogs, i \in Indexers, index \in SignedIntArgs :
            indexer_call(i, c, index) /\ Alone
    \/ item_by_index /\ Alone
    \/ server_change
    \/ abandon /\ Alone

SpecIndex == InitWalk /\ [][NextIndex]_vars

\* The root catalog, against any listing of unique ids, and two consumers.
InitTwoWalks ==
    /\ listing \in DistinctListings
    /\ catalogs = <<ClientCatalog(Client, <<>>, "m0", EmptyDict, <<>>)>>
    /\ origin = <<[receiver |-> 0, query |-> KeyLookup("")]>>
    /\ call = Idle
    /\ requests = <<>>
    /\ other = Idle
    /\ NoArrays

\* Two iterations over the one catalog, their steps in any order.
NextTwoWalks ==
    \/ \E c \in DOMAIN catalogs : iter_call(c) /\ Alone
    \/ iter /\ Alone
    \/ abandon /\ Alone
    \/ \E c \in DOMAIN catalogs : other_iter_call(c)
    \/ other_iter
    \/ other_abandon

SpecTwoWalks == InitTwoWalks /\ [][NextTwoWalks]_vars

\* There is no catalog, and no frame for an operation of one.
NoCatalogs ==
    /\ listing = <<>>
    /\ catalogs = <<>>
    /\ origin = <<>>
    /\ call = <<>>
    /\ requests = <<>>
    /\ NoOther

\* The array nodes, against any structure the server may declare.
InitArray ==
    /\ NoCatalogs
    /\ structure \in Structures
    /\ arrays = <<>>
    /\ job = IdleJob
    /\ fetches = EmptyLog

\* The caller reads its nodes one after the other, each once, the node
\* nearer the root first, and keeps the arrays.
NextUnread(self) ==
    /\ \A i \in DOMAIN arrays : arrays[i].node # self
    /\ \A node \in Sources :
         Len(node.path) < Len(self.path) =>
            \E i \in DOMAIN arrays : arrays[i].node = node

\* read(), and the forcing of regions of the arrays it returned.
NextArray ==
    \/ \E self \in Sources : NextUnread(self) /\ read(self)
    \/ \E sel \in Selections : \E region \in Regions(arrays[sel[1]].array.shape) :
            force(sel, region)
    \/ compute_block
    \/ discard

SpecArray == InitArray /\ [][NextArray]_vars

(* ------------------------------- claims -------------------------------- *)
\* The listing a catalog's requests select on the server.
CatalogView(c) == View(catalogs[c].queries_as_params)

\* The node the dispatch rule builds for an entry of a catalog.
ExpectedNode(self, item) ==
    Construct(get_class(self, item).cls, self.client,
              Append(self.path, item.id), item.metadata,
              self.container_dispatch)

\* Whether every entry of a listing has a class under the dispatch rule.
AllDispatch(self, view) ==
    \A i \in DOMAIN view : ~get_class(self, view[i]).raised

\* Python's view[a:b] for a >= 0 and b >= 0 or None.
PySlice(view, a, b) ==
    SubSeq(view, a + 1, IF b = None THEN Len(view) ELSE Min(b[1], Len(view)))

IsPrefix(s, t) == Len(s) <= Len(t) /\ s = SubSeq(t, 1, Len(s))

Finished == call.pc = "done"
Returned == call.pc = "done" /\ call.outcome = "return"

\* C1: keys() yields exactly the ids of the server's listing for the
\* catalog, each once and in server order, whatever the sizes of the pages
\* (empty ones included): what was yielded and what is left of the current
\* page is always a prefix of the listing's ids, every further request goes
\* to the next link of the last response, and the walk returns only at a
\* null next link, with all the ids.
KeysYieldListing ==
    call.op = "keys" =>
        /\ \A i \in DOMAIN call.out : call.out[i].kind = "key"
        /\ IsPrefix([i \in DOMAIN call.out |-> call.out[i].key] \o Ids(call.page),
                    Ids(CatalogView(call.cat)))
        /\ (call.pc = "fetch" => ~call.next_page_url.null)
        /\ (call.pc = "fetch" /\ requests # <<>> =>
                call.next_page_url = call.response_next)
        /\ (Returned =>
                /\ call.response_next.null
                /\ [i \in DOMAIN call.out |-> call.out[i].key]
                       = Ids(CatalogView(call.cat)))

\* C1 witness: a walk that returned the ids of a listing of MaxItems entries
\* (the first two different) after three pages, the last of them empty.
KeysYieldListingWitness ==
    /\ call.op = "keys" /\ Returned
    /\ Len(call.out) = MaxItems
    /\ call.out[1].key # call.out[2].key
    /\ Len(requests) = 3
    /\ call.data = <<>>

\* What a sliced access of an indexer is to return for one entry.
ExpectedEntry(indexer, self, item) ==
    IF indexer = "keys_indexer" THEN KeyResult(item.id)
    ELSE IF indexer = "items_indexer"
    THEN PairResult(item.id, ExpectedNode(self, item))
    ELSE NodeResult(ExpectedNode(self, item))

\* C2: a sliced access [a:b] through an indexer returns exactly the entries
\* a..b-1 of the server's listing (every entry having a class to build).
SliceReturnsInterval ==
    (/\ call.op \in Indexers /\ call.index_kind = "slice"
     /\ Finished /\ call.outcome # "HTTPStatusError"
     /\ AllDispatch(catalogs[call.cat], CatalogView(call.cat))) =>
        LET expected == PySlice(CatalogView(call.cat), call.start, call.stop)
        IN  /\ Returned
            /\ call.out = [i \in DOMAIN expected |->
                             ExpectedEntry(call.op, catalogs[call.cat], expected[i])]

\* C3: a keyed lookup whose response holds two or more items ends in a
\* fatal error that is not the missing-key KeyError, and hands back no node.
LookupManyIsFatal ==
    (call.op = "getitem" /\ Finished /\ Len(call.data) >= 2) =>
        /\ call.outcome \in {"AssertionError", "ValueError"}
        /\ call.result = NoResult

\* C3 witness: a lookup answered with two items has ended.
LookupManyIsFatalWitness ==
    /\ call.op = "getitem" /\ Finished
    /\ Len(call.data) = 2
    /\ call.data[1].id = call.key
    /\ call.outcome = "AssertionError"

\* C4: a keyed lookup ends in KeyError exactly when the response was
\* successful and held no item.
KeyErrorIffNoMatch ==
    (call.op = "getitem" /\ Finished) =>
        (call.outcome = "KeyError" <=>
            (call.outcome # "HTTPStatusError" /\ call.data = <<>>))

\* Whether a params dict carries every condition of every query of a tuple.
CarriesAll(params, queries) ==
    \A i \in DOMAIN queries :
        \A j \in DOMAIN fields(queries[i]) :
            LET field == fields(queries[i])[j]
                name == ParamName(query_type_to_name(queries[i].type), field)
            IN  name \in DOMAIN params /\ params[name] = queries[i].cond[field]

\* C5: the request parameters of every catalog, and every request a
\* catalog issues, carry one parameter for every condition field of every
\* query of its query tuple.
ParamsCarryEveryQuery ==
    /\ \A c \in DOMAIN catalogs :
         CarriesAll(catalogs[c].queries_as_params, catalogs[c].queries)
    /\ \A r \in DOMAIN requests :
         CarriesAll(requests[r].params, catalogs[call.cat].queries)

\* The filter parameters of a request: all but "fields".
FilterParams(req) == DOMAIN req.params \ {"fields"}

\* What every step keeps: the catalogs that exist; what a step that adds a
\* catalog adds; and what the requests of a catalog without queries carry.
SearchStep ==
    /\ \A c \in DOMAIN catalogs : c \in DOMAIN catalogs' /\ catalogs'[c] = catalogs[c]
    /\ Len(catalogs') > Len(catalogs) =>
         LET new == catalogs'[Len(catalogs')]
             from == origin'[Len(catalogs')]
         IN  /\ Len(catalogs') = Len(catalogs) + 1
             /\ new.path = catalogs[from.receiver].path
             /\ new.queries = Append(catalogs[from.receiver].queries, from.query)
    /\ \A r \in DOMAIN requests' :
         catalogs'[call'.cat].queries = <<>> =>
            FilterParams(requests'[r]) =
                IF call'.op = "getitem" THEN {LookupParam} ELSE {}

\* C6: no step changes a catalog that exists, a search() least of all; a
\* step that adds a catalog adds one with the receiver's path and the
\* receiver's queries followed by the new query; and a catalog without
\* queries issues requests without filter parameters (but for the key
\* filter of a keyed lookup).
SearchNeverChangesReceiver == [][SearchStep]_vars

\* C6 witness: the root has issued a length request after C.search(q1) and
\* C.search(q1).search(q2) were made.
SearchNeverChangesReceiverWitness ==
    /\ Len(catalogs) = 3
    /\ origin[2].receiver = 1 /\ origin[3].receiver = 2
    /\ call.op = "len" /\ call.cat = 1 /\ Returned
    /\ Len(requests) = 1

\* C7: the request of catalog[key] carries the equality filter on the
\* requested key and the conditions of all the catalog's queries.
LookupRequestCarriesKey ==
    (call.op = "getitem" /\ requests # <<>>) =>
        /\ LookupParam \in DOMAIN requests[1].params
        /\ requests[1].params[LookupParam] = call.key
        /\ CarriesAll(requests[1].params, catalogs[call.cat].queries)

\* C8: items() yields the pair (id, node) for every entry of the listing in
\* server order, and values() the nodes (every entry having a class to
\* build).
ItemsYieldPairs ==
    (/\ call.op \in {"items", "values"}
     /\ Finished /\ call.outcome # "HTTPStatusError"
     /\ AllDispatch(catalogs[call.cat], CatalogView(call.cat))) =>
        LET view == CatalogView(call.cat)
            self == catalogs[call.cat]
        IN  /\ Returned
            /\ call.out = [i \in DOMAIN view |->
                    IF call.op = "items"
                    THEN PairResult(view[i].id, ExpectedNode(self, view[i]))
                    ELSE NodeResult(ExpectedNode(self, view[i]))]

\* An indexer was called with an int.
IntIndexed == call.op \in Indexers /\ call.index_kind = "int"

\* C9: integer-indexed access at N >= length never issues the offset=N,
\* limit=1 request, yields and returns nothing, and ends in IndexError
\* (or in the HTTP error of a length request that failed).
IndexPastEndRaises ==
    (IntIndexed /\ call.index >= Len(CatalogView(call.cat))) =>
        /\ \A r \in DOMAIN requests : requests[r].limit = None
        /\ call.pc # "item"
        /\ call.out = <<>> /\ call.result = NoResult
        /\ (Finished => call.outcome \in {"IndexError", "HTTPStatusError"})

\* C9 witness: index N = length (the largest listing) ended in IndexError.
IndexPastEndRaisesWitness ==
    /\ IntIndexed /\ Finished
    /\ call.index = MaxItems
    /\ Len(CatalogView(call.cat)) = MaxItems
    /\ call.outcome = "IndexError"

\* C10: for 0 <= N < length the indexers return the N-th entry: its id,
\* the pair (id, node), and the node (the entry having a class to build).
IndexersReturnNth ==
    (/\ IntIndexed /\ Finished /\ call.outcome # "HTTPStatusError"
     /\ call.index < Len(CatalogView(call.cat))
     /\ AllDispatch(catalogs[call.cat], CatalogView(call.cat))) =>
        /\ Returned
        /\ call.result = ExpectedEntry(call.op, catalogs[call.cat],
                                       CatalogView(call.cat)[call.index + 1])

\* C15: a sliced access [start:stop] with a stop ends its page walk once
\* position stop is reached: no page is requested beyond the one that
\* holds position stop (every request starts at or before stop), and no
\* entry beyond stop - start is handed out, whatever next link that page
\* carries.
SliceWalkEndsAtStop ==
    (/\ call.op \in Indexers /\ call.index_kind = "slice"
     /\ call.stop # None /\ call.start <= call.stop[1]) =>
        /\ \A r \in DOMAIN requests : requests[r].url.offset <= call.stop[1]
        /\ Len(call.out) <= call.stop[1] - call.start

\* The ids a walk has yielded.
Yielded(frame) == [i \in DOMAIN frame.out |-> frame.out[i].key]

\* A walk of keys() is on its way through the listing: what it yielded and
\* what is left of its page is a prefix of the listing's ids, and it
\* returns with all of them.
WalkOnCourse(frame) ==
    frame.op = "keys" =>
        /\ IsPrefix(Yielded(frame) \o Ids(frame.page), Ids(CatalogView(frame.cat)))
        /\ (frame.pc = "done" /\ frame.outcome = "return" =>
                Yielded(frame) = Ids(CatalogView(frame.cat)))

\* What every step of two interleaved walks keeps: the catalog; the frame
\* of the walk that did not take the step; a walk that starts, starts at
\* the first page with nothing yielded; and both walks stay on course.
TwoWalksStep ==
    /\ catalogs' = catalogs
    /\ (call' # call => other' = other)
    /\ (other' # other => call' = call)
    /\ (call.pc = "idle" /\ call'.pc # "idle" =>
            call'.next_page_url = Link(0, 0) /\ call'.out = <<>>)
    /\ (other.pc = "idle" /\ other'.pc # "idle" =>
            other'.next_page_url = Link(0, 0) /\ other'.out = <<>>)
    /\ WalkOnCourse(call') /\ WalkOnCourse(other')

\* C16: keys() is restartable and its iterations are independent: every
\* call starts a fresh walk at the first page, and when the steps of two
\* walks over one catalog are interleaved in any order, each yields the
\* complete id sequence in server order; no step of one changes the
\* other's position or the catalog.
InterleavedWalksIndependent == [][TwoWalksStep]_vars

\* C16 witness: the first walk has returned all ids of the longest listing
\* while the second, started over after it was abandoned or not, is in the
\* middle of its own, one id yielded and one left in its page.
InterleavedWalksIndependentWitness ==
    /\ call.op = "keys" /\ Returned /\ Len(call.out) = MaxItems
    /\ other.op = "keys" /\ other.pc = "loop"
    /\ Len(other.out) = 1 /\ Len(other.page) = 1

\* C19: integer-indexed access at N >= 0 ends in one of two ways, the
\* N-th item handed back or IndexError, also when the server's listing
\* changes between the length request and the item request (an HTTP error
\* and an entry without a class to build aside).
IndexEndsInItemOrIndexError ==
    (/\ IntIndexed /\ call.index >= 0
     /\ Finished /\ call.outcome # "HTTPStatusError"
     /\ AllDispatch(catalogs[call.cat], call.data)) =>
        \/ call.outcome = "IndexError"
        \/ /\ call.outcome = "return"
           /\ Len(call.data) = 1

\* C20: every page[offset] sent for integer-indexed access lies in
\* [0, length), the length being the one the range check obtained: no
\* index outside that range, a negative one in particular, is forwarded.
IndexOffsetsInRange ==
    IntIndexed =>
        \A r \in DOMAIN requests :
            requests[r].limit # None =>
                /\ call.length # None
                /\ 0 <= requests[r].url.offset
                /\ requests[r].url.offset < call.length[1]

(* -------------------------- claims on children ------------------------- *)
\* The nodes the operation in progress has handed out so far.
Produced ==
    {call.out[i].node : i \in {j \in DOMAIN call.out :
                                call.out[j].kind \in {"node", "pair"}}}
    \cup (IF call.result.kind \in {"node", "pair"} THEN {call.result.node} ELSE {})

\* Whether a node is the child of a parent for some entry of the listing:
\* the parent's path and the entry's id, the parent's client, the parent's
\* own class for an entry of type "catalog" and else the constructor the
\* parent's table registers for the entry's container; as a catalog, no
\* queries.
ChildOf(parent, node) ==
    \E i \in DOMAIN listing :
        /\ node.path = Append(parent.path, listing[i].id)
        /\ node.client = parent.client
        /\ IF listing[i].type = "catalog" THEN node.cls = parent.cls
           ELSE /\ listing[i].container \in DOMAIN parent.container_dispatch
                /\ node.cls = parent.container_dispatch[listing[i].container]
        /\ (node.cls = "ClientCatalog" => node.queries = <<>>)

ReadStep ==
    /\ (job'.op = "read" /\ job.pc = "idle") =>
          /\ fetches' = (describe_request([path |-> job'.source]) :> 1)
          /\ (job'.outcome = "return" =>
                /\ Len(arrays') = Len(arrays) + 1
                /\ arrays'[Len(arrays')].node.path = job'.source
                /\ DOMAIN arrays'[Len(arrays')].array.dask # {})
    /\ \A r \in DOMAIN fetches' :
          (r.endpoint = "blob/array" /\ Count(fetches', r) > Count(fetches, r)) =>
             /\ job.op = "compute" /\ job.pc = "running"
             /\ \E key \in job.pending \cap DOMAIN MergedGraph(job.sel) :
                   r = get_block_request(MergedGraph(job.sel)[key].self,
                                         MergedGraph(job.sel)[key].block)

\* C11: read() transfers no array bytes: the only request it issues is the
\* structure request for the node's path, and block requests are issued
\* only later, by a computation that forces a block.
ReadTransfersNoBytes == [][ReadStep]_vars

\* C11 witness: read() has returned an array of four blocks, and the only
\* request made is the structure request.
ReadTransfersNoBytesWitness ==
    /\ job.op = "read" /\ job.outcome = "return"
    /\ Len(arrays) = 1
    /\ Cardinality(DOMAIN arrays[1].array.dask) = 4
    /\ DOMAIN fetches = {describe_request(arrays[1].node)}

\* The block of a dimension that holds element p.
BlockOfElement(extents, p) ==
    CHOOSE i \in 0..(Len(extents) - 1) :
        BlockStart(extents, i) <= p /\ p < BlockStart(extents, i + 1)

\* The block coordinates that hold an element of the region.
Touched(chunks, region) ==
    {[d \in DOMAIN region |-> BlockOfElement(chunks[d], p[d])] :
        p \in {q \in [DOMAIN region -> 0..(MaxExtent - 1)] :
                \A d \in DOMAIN region :
                    region[d].lo <= q[d] /\ q[d] < region[d].hi}}

\* C12: forcing a region of one lazy array issues block requests, to the
\* array's own path, for the block coordinates that hold an element of the
\* region and for no other, one each; all of them once the region is
\* computed.
ForcedRegionFetchesItsBlocks ==
    (job.op = "compute" /\ Len(job.sel) = 1) =>
        LET a == arrays[job.sel[1]]
            expected == {get_block_request(a.node, c) :
                            c \in Touched(a.array.chunks, job.region)}
        IN  /\ DOMAIN fetches \subseteq expected
            /\ \A r \in DOMAIN fetches : fetches[r] = 1
            /\ (job.outcome = "return" => DOMAIN fetches = expected)

\* C12 witness: the first row of a two-dimensional array of 2 x 2 blocks,
\* whose first chunks are two elements long, was forced and computed with
\* two block requests.
ForcedRegionFetchesItsBlocksWitness ==
    /\ job.op = "compute" /\ job.outcome = "return" /\ job.sel = <<1>>
    /\ Len(job.region) = 2
    /\ arrays[1].array.chunks = <<<<2, 1>>, <<2, 1>>>>
    /\ job.region = <<[lo |-> 0, hi |-> 1], [lo |-> 0, hi |-> 3]>>
    /\ Cardinality(DOMAIN fetches) = 2

\* C13: a block response whose byte count is not the product of the
\* requested shape times the element width makes _get_block fail with a
\* ValueError: the block is never handed back.
MalformedBlockFails ==
    (/\ job.op = "compute" /\ job.content_length # None
     /\ job.key \in DOMAIN MergedGraph(job.sel)) =>
        LET task == MergedGraph(job.sel)[job.key]
        IN  job.content_length[1] # Product(task.shape) * itemsize(task.dtype) =>
                /\ job.pc = "done" /\ job.outcome = "ValueError"
                /\ job.key \notin DOMAIN job.blocks

\* C13 witness: a block of two elements or more was answered with one
\* element too many, a whole number of elements, and the computation ended
\* in ValueError.
MalformedBlockFailsWitness ==
    /\ job.op = "compute" /\ job.outcome = "ValueError"
    /\ job.content_length # None
    /\ LET task == MergedGraph(job.sel)[job.key]
       IN  /\ Product(task.shape) >= 2
           /\ job.content_length[1] =
                (Product(task.shape) + 1) * itemsize(task.dtype)

\* C17: the task graph of every array read() returned has exactly one
\* task per block coordinate of the Cartesian product of the per-dimension
\* block counts of the declared grid, under the key (name, coordinate), and
\* the task for coordinate c is (_get_block of the node, c, dtype, shape)
\* with shape[d] = chunks[d][c[d]].
GraphHasOneTaskPerBlock ==
    \A i \in DOMAIN arrays :
        LET a == arrays[i].array
        IN  /\ a.chunks = structure.chunks
            /\ DOMAIN a.dask = {<<a.name>> \o c : c \in BlockCoords(a.chunks)}
            /\ Cardinality(DOMAIN a.dask) =
                    Product([d \in DOMAIN a.chunks |-> Len(a.chunks[d])])
            /\ \A c \in BlockCoords(a.chunks) :
                    a.dask[<<a.name>> \o c] =
                        [func |-> "_get_block", self |-> arrays[i].node,
                         block |-> c, dtype |-> structure.dtype,
                         shape |-> [d \in DOMAIN c |-> a.chunks[d][c[d] + 1]]]

\* C17 witness: an array was read whose grid is irregular in both
\* dimensions, chunks of 1 and 2 by chunks of 2 and 1.
GraphHasOneTaskPerBlockWitness ==
    /\ Len(arrays) >= 1
    /\ arrays[1].array.chunks = <<<<1, 2>>, <<2, 1>>>>
    /\ Cardinality(DOMAIN arrays[1].array.dask) = 4

\* C18: lazy arrays read from nodes with different (endpoint, path) carry
\* different names, so that none of their task keys collide; and when two
\* are combined in one computation, every block of each is fetched from
\* that array's own path.
ArrayNamesDiffer ==
    /\ \A i, j \in DOMAIN arrays :
         arrays[i].node # arrays[j].node =>
            /\ arrays[i].array.name # arrays[j].array.name
            /\ DOMAIN arrays[i].array.dask \cap DOMAIN arrays[j].array.dask = {}
    /\ (job.op = "compute" /\ job.outcome = "return") =>
         \A i \in DOMAIN job.sel :
            \A c \in Touched(arrays[job.sel[i]].array.chunks, job.region) :
                Count(fetches, get_block_request(arrays[job.sel[i]].node, c)) = 1

====
